---- MODULE Spec2Model ----
(***************************************************************************)
(* Request orchestration of the two chat front-ends of clause-chat-bot:    *)
(*   local  : src/local_chatbot/gui.py (ChatbotGUI, ModelWorker) with      *)
(*            src/local_chatbot/model_handler.py (ModelHandler)            *)
(*   hosted : src/chat-gui.py (ChatBotWindow, AnthropicWorker)             *)
(* One behaviour is one run of one of the two programs (variable variant). *)
(* A text is a sequence of string tokens, so that formatting an entry is   *)
(* a concatenation that can be told apart from its parts.  UI handlers run *)
(* on the single UI thread and are atomic with respect to each other; the  *)
(* steps of a worker thread interleave with them.                          *)
(***************************************************************************)
EXTENDS Integers, Sequences, FiniteSets, TLC

(* ---- bounds ---------------------------------------------------------- *)
\* local: no prompt is dispatched once this many workers were started
MaxRequests == 2
\* local: changes of the model selector (a pick by the user, a Refresh)
MaxSelectorEvents == 1
\* hosted: no prompt is dispatched once the turns of the history and the
\* requests in flight together reach this number
MaxTurns == 3

(* ---- values ---------------------------------------------------------- *)
\* a Python str value holding text v
Str(v) == [t |-> "str", v |-> v]
\* the Python value None
PyNone == [t |-> "none", v |-> <<>>]

\* what the user types into the prompt box
TypedTexts == { <<" ">>, <<" ", "a", " ">> }

\* str.strip(): drop leading and trailing white space
RECURSIVE LStrip(_)
LStrip(s) == IF s # <<>> /\ Head(s) = " " THEN LStrip(Tail(s)) ELSE s
RECURSIVE RStrip(_)
RStrip(s) == IF s # <<>> /\ s[Len(s)] = " " THEN RStrip(SubSeq(s, 1, Len(s) - 1)) ELSE s
Strip(s) == RStrip(LStrip(s))

\* ModelHandler.__init__ default model_name
DefaultModel == "gemma3:4b"

(* ---- the local backend (external) ------------------------------------ *)
\* one entry of the "models" list of GET /api/tags; model.get("name") is
\* None when the entry has no name
NamedModel(n) == [hasName |-> TRUE, name |-> n]
UnnamedModel == [hasName |-> FALSE, name |-> ""]
TagLists == { <<>>,
              <<NamedModel("gemma3:4b"), NamedModel("llama3:8b")>>,
              <<NamedModel("llama3:8b"), UnnamedModel>> }
\* outcomes of requests.get(".../api/tags")
TagsOutcomes ==
    { [t |-> "conn_error", status |-> 0, valid |-> FALSE, models |-> <<>>],
      [t |-> "http", status |-> 500, valid |-> FALSE, models |-> <<>>],
      [t |-> "http", status |-> 200, valid |-> FALSE, models |-> <<>>] }
    \cup { [t |-> "http", status |-> 200, valid |-> TRUE, models |-> l] : l \in TagLists }
\* the outcomes a Refresh click of the window model meets: no connection, or
\* an answer that lists named models
RefreshTagsOutcomes ==
    { out \in TagsOutcomes :
        \/ out.t = "conn_error"
        \/ out.status = 200 /\ out.valid
              /\ \A i \in 1..Len(out.models) : out.models[i].hasName }

\* bodies of a reply of POST /api/generate
\*   kind "object" : one JSON object;  "concat" : several JSON objects joined
\*   by newlines;  "array" : valid JSON that is no object;  "invalid" : no JSON
\*   has/response : the "response" member of the (first) object
\*   last : the "response" member of the last object
GenBody(k, h, r) == [kind |-> k, has |-> h, response |-> r, last |-> r]
\* several objects joined by "}\n{"; the text holds the word "response"
ConcatBody(h, r, last) == [kind |-> "concat", has |-> h, response |-> r, last |-> last]
GenBodies == { GenBody("object", TRUE, Str(<<"hi">>)),
               GenBody("object", FALSE, PyNone),
               GenBody("object", TRUE, PyNone),
               ConcatBody(TRUE, Str(<<"a">>), Str(<<"b">>)),
               ConcatBody(FALSE, PyNone, Str(<<"b">>)),
               GenBody("array", FALSE, PyNone),
               GenBody("invalid", FALSE, PyNone) }
NoBody == GenBody("none", FALSE, PyNone)
\* outcomes of requests.post(api_endpoint, json=payload)
GenOutcomes ==
    { [t |-> "conn_error", status |-> 0, body |-> NoBody],
      [t |-> "http", status |-> 500, body |-> NoBody] }
    \cup { [t |-> "http", status |-> 200, body |-> b] : b \in GenBodies }
NoOutcome == [t |-> "pending", status |-> 0, body |-> NoBody]
\* the outcomes a worker of the window model meets: no connection, an error
\* status, an answer, an answer whose response is null
WorkerGenOutcomes ==
    { out \in GenOutcomes :
        out.t = "http" /\ out.status = 200 => out.body.kind = "object" /\ out.body.has }

(* ---- ModelHandler.get_response ---------------------------------------- *)
\* options.num_predict of the generate payload
num_predict == 1024

\* the payload dict built by get_response
Payload(model, prompt) ==
    [model |-> model, prompt |-> prompt, stream |-> FALSE, num_predict |-> num_predict]
NoPayload == [model |-> "", prompt |-> <<>>, stream |-> TRUE, num_predict |-> 0]

\* a get_response whose recovery takes the last of several objects
GetResponseValue_LastObject(out) ==
    IF out.t = "conn_error"
    THEN Str(<<"Error communicating with Ollama API: ", "Connection refused">>)
    ELSE IF out.status # 200
    THEN Str(<<"Error: Failed to get response (Status code: ", ToString(out.status), ")">>)
    ELSE IF out.body.kind = "object"
    THEN IF out.body.has THEN out.body.response ELSE Str(<<"No response generated">>)
    ELSE IF out.body.kind = "array"
    THEN Str(<<"Error communicating with Ollama API: ", "'list' object has no attribute 'get'">>)
    ELSE IF out.body.kind = "concat"
    THEN out.body.last
    ELSE Str(<<"Error parsing model response. Please try again.">>)

\* the value get_response returns for an outcome of the POST
GetResponseValue(out) ==
    IF out.t = "conn_error"
    THEN \* requests.post raised; outer except
         Str(<<"Error communicating with Ollama API: ", "Connection refused">>)
    ELSE IF out.status # 200
    THEN Str(<<"Error: Failed to get response (Status code: ", ToString(out.status), ")">>)
    ELSE IF out.body.kind = "object"
    THEN \* result.get("response", "No response generated")
         IF out.body.has THEN out.body.response ELSE Str(<<"No response generated">>)
    ELSE IF out.body.kind = "array"
    THEN \* result.get raises AttributeError, which is no JSONDecodeError
         Str(<<"Error communicating with Ollama API: ", "'list' object has no attribute 'get'">>)
    ELSE IF out.body.kind = "concat"
    THEN \* first fragment: partial_result.get("response", "")
         IF out.body.has THEN out.body.response ELSE Str(<<>>)
    ELSE Str(<<"Error parsing model response. Please try again.">>)

\* what a call returns to its caller: a value, or an exception with text val
Returned(v) == [raised |-> FALSE, val |-> v]
Raised(txt) == [raised |-> TRUE, val |-> Str(txt)]
NoReturn == [raised |-> FALSE, val |-> PyNone]

get_response(out) == Returned(GetResponseValue(out))

(* ---- signals --------------------------------------------------------- *)
\* one emission of WorkerSignals.finished / WorkerSignals.error, carrying a
\* str argument; w is the emitting worker
Signal(name, arg, w) == [sig |-> name, arg |-> arg, w |-> w]

\* threads: the UI thread, and the threading.Thread of worker w
UIThread == 0
WorkerThread(w) == w

\* every receiver always calls its slots at once, in the emitting thread
ConnectionType_Direct(emitter, receiver) == "direct"

\* how a signal connected with connect(slot) reaches its slot
\* (Qt.AutoConnection): emitted in the thread the receiver lives in, the slot
\* is called at once inside emit(); emitted in another thread, the call is
\* queued to the event loop of the receiver's thread
ConnectionType(emitter, receiver) ==
    IF emitter = receiver THEN "direct" ELSE "queued"

\* a run that emits finished and then the error signal as well
ModelWorkerSignals_Both(ret, w) ==
    << Signal("finished", <<>>, w), Signal("error", <<>>, w) >>

\* the signals ModelWorker.run emits once get_response has returned or raised
\* (finished is pyqtSignal(str): emit of a non-str raises TypeError, which
\* the except clause turns into an error signal)
ModelWorkerSignals(ret, w) ==
    IF ret.raised
    THEN << Signal("error", ret.val.v, w) >>
    ELSE IF ret.val.t = "str"
    THEN << Signal("finished", ret.val.v, w) >>
    ELSE << Signal("error", <<"WorkerSignals.finished[str].emit(): argument 1 has unexpected type 'NoneType'">>, w) >>

(* ---- QComboBox ------------------------------------------------------- *)
EmptySelector == [items |-> <<>>, index |-> -1]
currentText(sel) == IF sel.index >= 0 THEN sel.items[sel.index + 1] ELSE ""
\* QComboBox.findText: index of the first item equal to txt, or -1
findText(sel, txt) ==
    IF \E i \in 1..Len(sel.items) : sel.items[i] = txt
    THEN (CHOOSE i \in 1..Len(sel.items) :
             sel.items[i] = txt /\ \A j \in 1..(i - 1) : sel.items[j] # txt) - 1
    ELSE -1
\* an addItem that drops a text the box already holds
addItem_NoDuplicates(sel, txt) ==
    IF \E i \in 1..Len(sel.items) : sel.items[i] = txt THEN sel
    ELSE [items |-> Append(sel.items, txt),
          index |-> IF sel.items = <<>> THEN 0 ELSE sel.index]

\* QComboBox.addItem: the first item of an empty box becomes the current one
addItem(sel, txt) ==
    [items |-> Append(sel.items, txt),
     index |-> IF sel.items = <<>> THEN 0 ELSE sel.index]

\* the items added by the addItem loop: all names, or those before the first
\* entry without a name (addItem(None) raises TypeError)
RECURSIVE AddItems(_, _)
AddItems(sel, models) ==
    IF models = <<>> \/ ~Head(models).hasName THEN sel
    ELSE AddItems(addItem(sel, Head(models).name), Tail(models))
AllNamed(models) == \A i \in 1..Len(models) : models[i].hasName

(* ---- ChatbotGUI.populate_model_selector ------------------------------ *)
ConnectHint == << <<"Make sure Ollama is running ('ollama serve')">> >>
\* result of populate_model_selector: the selector, model_handler.model_name
\* and the lines appended to response_window
PopulateResult(sel, mname, out) ==
    IF out.t = "conn_error"
    THEN [sel |-> sel, model_name |-> mname,
          lines |-> << <<"Error connecting to Ollama API: ", "Connection refused">> >> \o ConnectHint]
    ELSE IF out.status # 200
    THEN [sel |-> sel, model_name |-> mname,
          lines |-> << <<"Error fetching models: Status code ", ToString(out.status)>> >>]
    ELSE IF ~out.valid
    THEN \* clear() has run, response.json() raises
         [sel |-> EmptySelector, model_name |-> mname,
          lines |-> << <<"Error connecting to Ollama API: ", "Expecting value">> >> \o ConnectHint]
    ELSE IF ~AllNamed(out.models)
    THEN \* addItem(None) raises in the loop
         [sel |-> AddItems(EmptySelector, out.models), model_name |-> mname,
          lines |-> << <<"Error connecting to Ollama API: ", "addItem: argument 1 has unexpected type 'NoneType'">> >> \o ConnectHint]
    ELSE LET added == AddItems(EmptySelector, out.models)
             index == findText(added, currentText(sel))
             restored == IF index >= 0 THEN [added EXCEPT !.index = index]
                         ELSE IF Len(added.items) > 0 THEN [added EXCEPT !.index = 0]
                         ELSE added
             selected_model == currentText(restored)
         IN  [sel |-> restored,
              model_name |-> IF selected_model # "" THEN selected_model ELSE mname,
              lines |-> <<>>]

(* ---- ModelHandler.__init__ and _check_model --------------------------- *)
\* the default base_url and the endpoint __init__ derives from it
base_url == "http://localhost:11434"
api_endpoint == <<base_url, "/api/generate">>

\* model names a ModelHandler is constructed with
ConfiguredModels == { DefaultModel, "llama3:8b", "mistral" }

\* the lists GET /api/tags can answer the check with
CheckTagLists ==
    TagLists \cup { <<NamedModel("gemma3:2b")>>,
                    <<NamedModel("llama3:8b"), NamedModel("llama3:8b"), NamedModel("gemma3:4b")>>,
                    <<UnnamedModel, NamedModel("gemma3:4b")>> }
CheckTagsOutcomes ==
    { out \in TagsOutcomes : ~(out.t = "http" /\ out.status = 200 /\ out.valid) }
    \cup { [t |-> "http", status |-> 200, valid |-> TRUE, models |-> l] : l \in CheckTagLists }
NoTags == [t |-> "pending", status |-> 0, valid |-> FALSE, models |-> <<>>]

\* str.split(':') of the model names that occur here
SplitColon(n) ==
    CASE n = "gemma3:4b" -> <<"gemma3", "4b">>
      [] n = "gemma3:2b" -> <<"gemma3", "2b">>
      [] n = "llama3:8b" -> <<"llama3", "8b">>
      [] OTHER -> <<n>>

\* a startswith that never matches
startswith_Never(m, model_base_name) == FALSE

\* m.startswith(f"{model_base_name}:"), model_base_name holding no colon
startswith(m, model_base_name) ==
    Len(SplitColon(m)) >= 2 /\ SplitColon(m)[1] = model_base_name

\* model.get("name"): the name, or None
NoName == [none |-> TRUE, s |-> ""]
model_get_name(model) ==
    IF model.hasName THEN [none |-> FALSE, s |-> model.name] ELSE NoName

\* the names of a list of name values, as printed
RECURSIVE ReprNames(_)
ReprNames(names) ==
    IF names = <<>> THEN <<>>
    ELSE << IF Head(names).none THEN "None" ELSE Head(names).s >> \o ReprNames(Tail(names))

RelatedMessage(model_name_, matching_models) ==
    <<"Model '", model_name_, "' not found exactly, but related models exist: ">>
        \o ReprNames(matching_models)
NotFoundMessage(model_name_) ==
    <<"Warning: Model '", model_name_, "' not found in Ollama.">>
AvailableMessage(available_models) ==
    <<"Available models: ">> \o ReprNames(available_models)

\* result of _check_model for a handler named model_name_: the exception it
\* raises (if any), whether available_models was assigned and to what, and
\* the lines it printed
CheckResult(raised, exc, assigned, available_models, printed) ==
    [ raised |-> raised, exc |-> exc, assigned |-> assigned,
      available_models |-> available_models, printed |-> printed ]
_check_model(model_name_, out) ==
    IF out.t = "conn_error"
    THEN CheckResult(TRUE, <<"Connection refused">>, FALSE, <<>>, <<>>)
    ELSE IF out.status # 200
    THEN CheckResult(TRUE, <<"Failed to connect to Ollama API: ", ToString(out.status)>>,
                     FALSE, <<>>, <<>>)
    ELSE IF ~out.valid
    THEN \* response.json() raises
         CheckResult(TRUE, <<"Expecting value">>, FALSE, <<>>, <<>>)
    ELSE LET available_models == [i \in 1..Len(out.models) |-> model_get_name(out.models[i])]
             exact == \E i \in 1..Len(available_models) :
                         ~available_models[i].none /\ available_models[i].s = model_name_
             model_base_name == SplitColon(model_name_)[1]
             matches(m) == startswith(m.s, model_base_name)
             matching_models == SelectSeq(available_models, matches)
         IN  IF exact
             THEN CheckResult(FALSE, <<>>, TRUE, available_models, <<>>)
             ELSE IF \E i \in 1..Len(available_models) : available_models[i].none
             THEN \* None.startswith raises AttributeError in the comprehension
                  CheckResult(TRUE, <<"'NoneType' object has no attribute 'startswith'">>,
                              TRUE, available_models, <<>>)
             ELSE IF matching_models # <<>>
             THEN CheckResult(FALSE, <<>>, TRUE, available_models,
                              << RelatedMessage(model_name_, matching_models) >>)
             ELSE CheckResult(FALSE, <<>>, TRUE, available_models,
                              << NotFoundMessage(model_name_),
                                 AvailableMessage(available_models) >>)

\* a ModelHandler object; pc is "new" before __init__ has run, "ready" once
\* it has returned, "raised" when it raised
Handler(pc, model_arg, model_name_, endpoint, check, printed) ==
    [ pc |-> pc, model_arg |-> model_arg, model_name |-> model_name_,
      api_endpoint |-> endpoint, assigned |-> check.assigned,
      available_models |-> check.available_models, printed |-> printed ]
NoCheck == CheckResult(FALSE, <<>>, FALSE, <<>>, <<>>)
NoHandler == Handler("none", "", "", <<>>, NoCheck, <<>>)
NewHandler(model_arg) == Handler("new", model_arg, "", <<>>, NoCheck, <<>>)

\* an __init__ that lets the exception of the check escape
ModelHandler_init_Raises(model_arg, out) ==
    LET check == _check_model(model_arg, out) IN
    Handler(IF check.raised THEN "raised" ELSE "ready",
            model_arg, model_arg, api_endpoint, check, check.printed)

\* ModelHandler.__init__(model_name=model_arg) against tags outcome out
ModelHandler_init(model_arg, out) ==
    LET check == _check_model(model_arg, out) IN
    Handler("ready", model_arg, model_arg, api_endpoint, check,
            check.printed \o
            ( IF check.raised
              THEN << <<"Error connecting to Ollama API: ">> \o check.exc,
                      <<"Make sure Ollama is running ('ollama serve') and the model is pulled">> >>
              ELSE << <<"Successfully connected to Ollama API server at ", base_url>>,
                      <<"Using model: ", model_arg>> >> ))

\* a call: its name, its inputs and what it gave
Call(fn, tags, sel, prompt, gen, url, payload, ret, result) ==
    [ fn |-> fn, tags |-> tags, sel |-> sel, prompt |-> prompt, gen |-> gen,
      url |-> url, payload |-> payload, ret |-> ret, result |-> result ]
NoPopulate == [sel |-> EmptySelector, model_name |-> "", lines |-> <<>>]
NoCall == Call("none", NoTags, EmptySelector, <<>>, NoOutcome, <<>>, NoPayload, NoReturn, NoPopulate)

(* ---- the hosted backend (external) ----------------------------------- *)
\* max_tokens of the messages.create call
max_tokens == 2000
\* the arguments of client.messages.create
Request(messages) ==
    [model |-> "claude-3-opus-20240229", max_tokens |-> max_tokens, messages |-> messages]
NoRequest == [model |-> "", max_tokens |-> 0, messages |-> <<>>]

\* outcomes of client.messages.create: a response whose content list holds a
\* text block or is empty, an error status, or no connection
HostedOutcomes ==
    { [t |-> "http", status |-> 200, body |-> GenBody("content", TRUE, Str(<<"hello">>))],
      [t |-> "http", status |-> 200, body |-> GenBody("content", FALSE, PyNone)],
      [t |-> "http", status |-> 500, body |-> NoBody],
      [t |-> "conn_error", status |-> 0, body |-> NoBody] }

\* AnthropicWorker.run, lines 45-52: the response text, or the exception
messages_create(out) ==
    IF out.t = "conn_error" THEN Raised(<<"Connection error.">>)
    ELSE IF out.status # 200
    THEN Raised(<<"Error code: ", ToString(out.status), " - ", "{'type': 'error'}">>)
    ELSE IF ~out.body.has
    THEN \* response.content[0] on an empty list
         Raised(<<"list index out of range">>)
    ELSE Returned(out.body.response)

\* the signals AnthropicWorker.run emits once the call has returned or raised
AnthropicWorkerSignals(ret, w) ==
    IF ret.raised
    THEN << Signal("error", ret.val.v, w) >>
    ELSE IF ret.val.t = "str"
    THEN << Signal("finished", ret.val.v, w) >>
    ELSE << Signal("error", <<"WorkerSignals.finished[str].emit(): argument 1 has unexpected type 'NoneType'">>, w) >>

(* ---- state ----------------------------------------------------------- *)
VARIABLES
    variant,          \* which program runs: "local" or "hosted"
    prompt_window,    \* local: text of the prompt box
    response_window,  \* local: the transcript, one text per append()
    send_button,      \* local: the Send button is enabled
    model_selector,   \* local: the QComboBox
    model_name,       \* local: model_handler.model_name
    current_worker,   \* local: 0 for None, else the worker's number
    prompt_text,      \* hosted: text of the prompt box
    message_history,  \* hosted: list of {role, content}
    chat_layout,      \* hosted: the MessageWidgets of the chat area
    status_label,     \* text of the status label
    workers,          \* the worker threads started so far, in start order
    events,           \* queued signal emissions waiting for the UI thread
    selector_events,  \* local: picks and refreshes made so far
    ui_thread,        \* local: what the UI thread does: "idle" in its event
                      \* loop, "tags" inside the GET of populate_model_selector
    mh,               \* a ModelHandler constructed and called on its own
    mh_call,          \* the latest call made on mh or of the selector refresh
    last_send         \* the latest call of send_message: whether the prompt
                      \* was non-empty and how many requests were outstanding

vars == << variant, prompt_window, response_window, send_button, model_selector,
           model_name, current_worker, prompt_text, message_history, chat_layout,
           status_label, workers, events, selector_events, ui_thread, last_send,
           mh, mh_call >>

localVars == << prompt_window, response_window, send_button, model_selector,
                model_name, current_worker >>
hostedVars == << prompt_text, message_history, chat_layout >>
unitVars == << mh, mh_call >>

\* a worker thread object; pc is its position in run().  pre and atDispatch
\* record the conversation before the pending user turn and at construction of
\* the worker; fin, err, onSuccess, onFailure count the signals it emitted and
\* the handler runs they caused.
Worker(prompt, model, pre, atDispatch, pc) ==
    [ prompt |-> prompt, model_name |-> model, pc |-> pc,
      idx |-> 0, messages |-> <<>>, sent |-> NoRequest,
      payload |-> NoPayload, outcome |-> NoOutcome, ret |-> NoReturn,
      pre |-> pre, atDispatch |-> atDispatch,
      fin |-> 0, err |-> 0, onSuccess |-> 0, onFailure |-> 0 ]

WorkerIds == 1..Len(workers)
\* a worker is in flight from start() until its signal has been handled
InFlight(w) == workers[w].onSuccess + workers[w].onFailure = 0
NumInFlight == Cardinality({ w \in WorkerIds : InFlight(w) })
Thinking == <<"Thinking...">>

Welcome == << <<"Welcome to the Local LLM Chatbot!">>,
              <<"Using Ollama API for inference.">>,
              <<"Type a prompt below and click Send.\n">> >>

\* ChatbotGUI.__init__ returns only if the populate_model_selector call of
\* init_ui appended nothing: response_window does not exist yet at that call,
\* so every error path of it raises out of the constructor.
Init ==
    /\ variant \in {"local", "hosted"}
    /\ prompt_window = <<>>
    /\ send_button = TRUE
    /\ current_worker = 0
    /\ prompt_text = <<>>
    /\ message_history = <<>>
    /\ chat_layout = <<>>
    /\ status_label = <<>>
    /\ workers = <<>>
    /\ events = <<>>
    /\ selector_events = 0
    /\ ui_thread = "idle"
    /\ mh = NoHandler
    /\ mh_call = NoCall
    /\ last_send = [nonempty |-> FALSE, busy |-> 0]
    /\ IF variant = "local"
       THEN \E out \in TagsOutcomes :
              LET r == PopulateResult(EmptySelector, DefaultModel, out) IN
              /\ r.lines = <<>>
              /\ model_selector = r.sel
              /\ model_name = r.model_name
              /\ response_window = Welcome
       ELSE /\ model_selector = EmptySelector
            /\ model_name = DefaultModel
            /\ response_window = <<>>

(* ---- ChatbotGUI (local) ---------------------------------------------- *)
\* the user edits the prompt box
ChatbotGUI_type(txt) ==
    /\ variant = "local"
    /\ ui_thread = "idle"
    /\ txt # prompt_window
    /\ prompt_window' = txt
    /\ UNCHANGED << variant, unitVars, response_window, send_button, model_selector, model_name,
                    current_worker, hostedVars, status_label, workers, events,
                    last_send, selector_events, ui_thread >>

\* the user picks another item of the selector
ChatbotGUI_select(i) ==
    /\ variant = "local"
    /\ ui_thread = "idle"
    /\ i \in 0..(Len(model_selector.items) - 1)
    /\ i # model_selector.index
    /\ selector_events < MaxSelectorEvents
    /\ selector_events' = selector_events + 1
    /\ model_selector' = [model_selector EXCEPT !.index = i]
    /\ UNCHANGED << variant, unitVars, prompt_window, response_window, send_button, model_name,
                    current_worker, hostedVars, status_label, workers, events,
                    last_send, ui_thread >>

\* Refresh clicked: populate_model_selector runs in the UI thread up to its
\* requests.get (line 129), which has no timeout and returns when the backend
\* has answered or the connection has failed
ChatbotGUI_populate_model_selector_get ==
    /\ variant = "local"
    /\ ui_thread = "idle"
    /\ selector_events < MaxSelectorEvents
    /\ selector_events' = selector_events + 1
    /\ ui_thread' = "tags"
    /\ UNCHANGED << variant, unitVars, localVars, hostedVars, status_label, workers, events,
                    last_send >>

\* requests.get returns or raises: the rest of populate_model_selector
ChatbotGUI_populate_model_selector(out) ==
    /\ variant = "local"
    /\ ui_thread = "tags"
    /\ ui_thread' = "idle"
    /\ LET r == PopulateResult(model_selector, model_name, out) IN
       /\ model_selector' = r.sel
       /\ model_name' = r.model_name
       /\ response_window' = response_window \o r.lines
    /\ UNCHANGED << variant, unitVars, prompt_window, send_button, current_worker, hostedVars,
                    status_label, workers, events, last_send, selector_events >>

\* send_message without the test of current_worker
LocalDispatches_NoGuard(txt, cw) == Strip(txt) # <<>>

\* the condition of send_message under which it dispatches
LocalDispatches(txt, cw) == Strip(txt) # <<>> /\ cw = 0

\* the transcript entry of a submitted prompt
YouEntry(txt) == <<"\nYou: ">> \o txt \o <<"\n">>

\* send_message, called by a click on Send or by Return in the prompt box
\* (eventFilter); the button can be disabled, the key cannot
ChatbotGUI_send_message ==
    /\ variant = "local"
    /\ ui_thread = "idle"
    /\ last_send' = [nonempty |-> Strip(prompt_window) # <<>>, busy |-> IF current_worker # 0 THEN 1 ELSE 0]
    /\ IF LocalDispatches(prompt_window, current_worker)
       THEN /\ Len(workers) < MaxRequests
            /\ response_window' = Append(response_window, YouEntry(prompt_window))
            /\ prompt_window' = <<>>
            /\ status_label' = Thinking
            /\ send_button' = FALSE
            /\ workers' = Append(workers,
                             Worker(prompt_window, currentText(model_selector),
                                    <<>>, <<>>, "start"))
            /\ current_worker' = Len(workers) + 1
       ELSE UNCHANGED << response_window, prompt_window, status_label, send_button,
                         workers, current_worker >>
    /\ UNCHANGED << variant, unitVars, model_selector, model_name, hostedVars, events, selector_events, ui_thread >>

\* ModelWorker.run, lines 26-27: set the handler's model name
ModelWorker_set_model(w) ==
    /\ variant = "local"
    /\ w \in WorkerIds /\ workers[w].pc = "start"
    /\ model_name' = IF workers[w].model_name # model_name
                     THEN workers[w].model_name ELSE model_name
    /\ workers' = [workers EXCEPT ![w].pc = "call"]
    /\ UNCHANGED << variant, unitVars, prompt_window, response_window, send_button, model_selector,
                    current_worker, hostedVars, status_label, events, last_send, selector_events, ui_thread >>

\* a worker that sends the transcript along with the prompt
ModelWorker_post_WithHistory(w) ==
    /\ variant = "local"
    /\ w \in WorkerIds /\ workers[w].pc = "call"
    /\ workers' = [workers EXCEPT ![w].pc = "wait",
                                  ![w].payload = Payload(model_name,
                                      response_window[Len(response_window) - 1] \o workers[w].prompt)]
    /\ UNCHANGED << variant, unitVars, localVars, hostedVars, status_label, events, last_send, selector_events, ui_thread >>

\* get_response builds the payload from self.model_name and posts it
ModelWorker_post(w) ==
    /\ variant = "local"
    /\ w \in WorkerIds /\ workers[w].pc = "call"
    /\ workers' = [workers EXCEPT ![w].pc = "wait",
                                  ![w].payload = Payload(model_name, workers[w].prompt)]
    /\ UNCHANGED << variant, unitVars, localVars, hostedVars, status_label, events, last_send, selector_events, ui_thread >>

\* the backend answers (or the connection fails); get_response returns
ModelWorker_reply(w, out) ==
    /\ variant = "local"
    /\ w \in WorkerIds /\ workers[w].pc = "wait"
    /\ workers' = [workers EXCEPT ![w].pc = "emit",
                                  ![w].outcome = out,
                                  ![w].ret = get_response(out)]
    /\ UNCHANGED << variant, unitVars, localVars, hostedVars, status_label, events, last_send, selector_events, ui_thread >>

CountSig(sigs, name) == Cardinality({ i \in 1..Len(sigs) : sigs[i].sig = name })

\* effect of ChatbotGUI.handle_response on the window
handle_response(response, sel, rw) ==
    [ status_label |-> <<>>, send_button |-> TRUE,
      response_window |-> Append(rw, <<currentText(sel), ": ">> \o response \o <<"\n">>),
      current_worker |-> 0 ]

\* a handle_error that forgets to reset the worker
handle_error_KeepsWorker(error_msg, sel, rw) ==
    [ status_label |-> <<>>, send_button |-> TRUE,
      response_window |-> rw \o << <<"Error: ">> \o error_msg \o <<"\n">>,
                                   <<"Please ensure Ollama is running with 'ollama serve'\n">> >>,
      current_worker |-> Len(workers) ]

\* effect of ChatbotGUI.handle_error on the window
handle_error(error_msg, sel, rw) ==
    [ status_label |-> <<>>, send_button |-> TRUE,
      response_window |-> rw \o << <<"Error: ">> \o error_msg \o <<"\n">>,
                                   <<"Please ensure Ollama is running with 'ollama serve'\n">> >>,
      current_worker |-> 0 ]

\* the window after the slots connected to the signals sigs have run in turn
RECURSIVE LocalSlots(_, _, _)
LocalSlots(sigs, sel, win) ==
    IF sigs = <<>> THEN win
    ELSE LocalSlots(Tail(sigs), sel,
                    IF Head(sigs).sig = "finished"
                    THEN handle_response(Head(sigs).arg, sel, win.response_window)
                    ELSE handle_error(Head(sigs).arg, sel, win.response_window))

\* ModelWorker.run, lines 33-36: emit the completion signal.  The worker is
\* a threading.Thread and the window lives in the UI thread.
ModelWorker_emit(w) ==
    /\ variant = "local"
    /\ w \in WorkerIds /\ workers[w].pc = "emit"
    /\ LET sigs == ModelWorkerSignals(workers[w].ret, w)
           emitted == [workers EXCEPT ![w].pc = "done",
                                      ![w].fin = @ + CountSig(sigs, "finished"),
                                      ![w].err = @ + CountSig(sigs, "error")] IN
       IF ConnectionType(WorkerThread(w), UIThread) = "queued"
       THEN /\ events' = events \o sigs
            /\ workers' = emitted
            /\ UNCHANGED << status_label, send_button, response_window, current_worker >>
       ELSE LET r == LocalSlots(sigs, model_selector,
                                [ status_label |-> status_label, send_button |-> send_button,
                                  response_window |-> response_window,
                                  current_worker |-> current_worker ]) IN
            /\ status_label' = r.status_label
            /\ send_button' = r.send_button
            /\ response_window' = r.response_window
            /\ current_worker' = r.current_worker
            /\ workers' = [emitted EXCEPT ![w].onSuccess = @ + CountSig(sigs, "finished"),
                                          ![w].onFailure = @ + CountSig(sigs, "error")]
            /\ events' = events
    /\ UNCHANGED << variant, unitVars, prompt_window, model_selector, model_name, hostedVars,
                    last_send, selector_events, ui_thread >>

\* the UI thread delivers a queued finished signal to handle_response
ChatbotGUI_handle_response ==
    /\ variant = "local"
    /\ ui_thread = "idle"
    /\ events # <<>> /\ Head(events).sig = "finished"
    /\ LET e == Head(events)
           r == handle_response(e.arg, model_selector, response_window) IN
       /\ status_label' = r.status_label
       /\ send_button' = r.send_button
       /\ response_window' = r.response_window
       /\ current_worker' = r.current_worker
       /\ workers' = [workers EXCEPT ![e.w].onSuccess = @ + 1]
    /\ events' = Tail(events)
    /\ UNCHANGED << variant, unitVars, prompt_window, model_selector, model_name, hostedVars,
                    last_send, selector_events, ui_thread >>

\* the UI thread delivers a queued error signal to handle_error
ChatbotGUI_handle_error ==
    /\ variant = "local"
    /\ ui_thread = "idle"
    /\ events # <<>> /\ Head(events).sig = "error"
    /\ LET e == Head(events)
           r == handle_error(e.arg, model_selector, response_window) IN
       /\ status_label' = r.status_label
       /\ send_button' = r.send_button
       /\ response_window' = r.response_window
       /\ current_worker' = r.current_worker
       /\ workers' = [workers EXCEPT ![e.w].onFailure = @ + 1]
    /\ events' = Tail(events)
    /\ UNCHANGED << variant, unitVars, prompt_window, model_selector, model_name, hostedVars,
                    last_send, selector_events, ui_thread >>

(* ---- ChatBotWindow (hosted) ------------------------------------------ *)
\* the user edits the prompt box
ChatBotWindow_type(txt) ==
    /\ variant = "hosted"
    /\ txt # prompt_text
    /\ prompt_text' = txt
    /\ UNCHANGED << variant, unitVars, localVars, message_history, chat_layout, status_label,
                    workers, events, last_send, selector_events, ui_thread >>

Turn(role, content) == [role |-> role, content |-> content]

\* effect of ChatBotWindow.add_message on chat area and history
add_message(message, is_user, layout, history) ==
    [ chat_layout |-> Append(layout, [message |-> message, is_user |-> is_user]),
      message_history |-> Append(history,
                                 Turn(IF is_user THEN "user" ELSE "assistant", message)) ]

\* the condition of send_message under which it dispatches (prompt is the
\* stripped text; inflight the number of workers whose completion is pending)
HostedDispatches(prompt, inflight) == prompt # <<>>

\* the list object the new worker keeps as its message_history: the window's
\* own list, which already holds the pending user turn
WorkerHistory(before, after) == after

\* send_message, called by a click on Send (the button is never disabled)
ChatBotWindow_send_message ==
    /\ variant = "hosted"
    /\ last_send' = [nonempty |-> Strip(prompt_text) # <<>>, busy |-> NumInFlight]
    /\ LET prompt == Strip(prompt_text) IN
       IF HostedDispatches(prompt, NumInFlight)
       THEN /\ Len(message_history) + NumInFlight < MaxTurns
            /\ LET r == add_message(prompt, TRUE, chat_layout, message_history) IN
               /\ chat_layout' = r.chat_layout
               /\ message_history' = r.message_history
               /\ workers' = Append(workers,
                                Worker(prompt, "", message_history,
                                       WorkerHistory(message_history, r.message_history),
                                       "copy"))
            /\ prompt_text' = <<>>
            /\ status_label' = Thinking
       ELSE UNCHANGED << chat_layout, message_history, workers, prompt_text, status_label >>
    /\ UNCHANGED << variant, unitVars, localVars, events, selector_events, ui_thread >>

\* the list worker w iterates in run(): self.message_history
HistoryOf(w) == message_history

\* AnthropicWorker.run, lines 37-49: the copy loop, the append of the prompt
\* and the call of the API.  The loop tests its index against the length of
\* the list at every iteration and the list only grows, so what it has copied
\* when it ends is the list as it is at that moment: the loop is one step
\* taken at the moment of its last test.
AnthropicWorker_copy(w) ==
    /\ variant = "hosted"
    /\ w \in WorkerIds /\ workers[w].pc = "copy"
    /\ LET copied == HistoryOf(w)
           messages == Append(copied, Turn("user", workers[w].prompt)) IN
       workers' = [workers EXCEPT ![w].idx = Len(copied),
                                  ![w].messages = messages,
                                  ![w].sent = Request(messages),
                                  ![w].pc = "wait"]
    /\ UNCHANGED << variant, unitVars, localVars, hostedVars, status_label, events, last_send, selector_events, ui_thread >>

\* the API answers (or the call fails)
AnthropicWorker_reply(w, out) ==
    /\ variant = "hosted"
    /\ w \in WorkerIds /\ workers[w].pc = "wait"
    /\ workers' = [workers EXCEPT ![w].pc = "emit",
                                  ![w].outcome = out,
                                  ![w].ret = messages_create(out)]
    /\ UNCHANGED << variant, unitVars, localVars, hostedVars, status_label, events, last_send, selector_events, ui_thread >>

\* a process_response that shows the answer as a user message
process_response_AsUser(response_text, layout, history) ==
    LET r == add_message(response_text, TRUE, layout, history) IN
    [ chat_layout |-> r.chat_layout, message_history |-> r.message_history,
      status_label |-> <<>> ]

\* effect of ChatBotWindow.process_response
process_response(response_text, layout, history) ==
    LET r == add_message(response_text, FALSE, layout, history) IN
    [ chat_layout |-> r.chat_layout, message_history |-> r.message_history,
      status_label |-> <<>> ]

\* effect of ChatBotWindow.show_error
show_error(error_text, layout, history) ==
    [ chat_layout |-> layout, message_history |-> history,
      status_label |-> <<"Error: ">> \o error_text ]

\* the window after the slots connected to the signals sigs have run in turn
RECURSIVE HostedSlots(_, _)
HostedSlots(sigs, win) ==
    IF sigs = <<>> THEN win
    ELSE HostedSlots(Tail(sigs),
                     IF Head(sigs).sig = "finished"
                     THEN process_response(Head(sigs).arg, win.chat_layout, win.message_history)
                     ELSE show_error(Head(sigs).arg, win.chat_layout, win.message_history))

\* AnthropicWorker.run, lines 55-57: emit the completion signal.  The worker
\* is a threading.Thread and the window lives in the UI thread.
AnthropicWorker_emit(w) ==
    /\ variant = "hosted"
    /\ w \in WorkerIds /\ workers[w].pc = "emit"
    /\ LET sigs == AnthropicWorkerSignals(workers[w].ret, w)
           emitted == [workers EXCEPT ![w].pc = "done",
                                      ![w].fin = @ + CountSig(sigs, "finished"),
                                      ![w].err = @ + CountSig(sigs, "error")] IN
       IF ConnectionType(WorkerThread(w), UIThread) = "queued"
       THEN /\ events' = events \o sigs
            /\ workers' = emitted
            /\ UNCHANGED << chat_layout, message_history, status_label >>
       ELSE LET r == HostedSlots(sigs, [ chat_layout |-> chat_layout,
                                        message_history |-> message_history,
                                        status_label |-> status_label ]) IN
            /\ chat_layout' = r.chat_layout
            /\ message_history' = r.message_history
            /\ status_label' = r.status_label
            /\ workers' = [emitted EXCEPT ![w].onSuccess = @ + CountSig(sigs, "finished"),
                                          ![w].onFailure = @ + CountSig(sigs, "error")]
            /\ events' = events
    /\ UNCHANGED << variant, unitVars, localVars, prompt_text, last_send, selector_events, ui_thread >>

\* the UI thread delivers a queued finished signal to process_response
ChatBotWindow_process_response ==
    /\ variant = "hosted"
    /\ events # <<>> /\ Head(events).sig = "finished"
    /\ LET e == Head(events)
           r == process_response(e.arg, chat_layout, message_history) IN
       /\ chat_layout' = r.chat_layout
       /\ message_history' = r.message_history
       /\ status_label' = r.status_label
       /\ workers' = [workers EXCEPT ![e.w].onSuccess = @ + 1]
    /\ events' = Tail(events)
    /\ UNCHANGED << variant, unitVars, localVars, prompt_text, last_send, selector_events, ui_thread >>

\* the UI thread delivers a queued error signal to show_error
ChatBotWindow_show_error ==
    /\ variant = "hosted"
    /\ events # <<>> /\ Head(events).sig = "error"
    /\ LET e == Head(events)
           r == show_error(e.arg, chat_layout, message_history) IN
       /\ chat_layout' = r.chat_layout
       /\ message_history' = r.message_history
       /\ status_label' = r.status_label
       /\ workers' = [workers EXCEPT ![e.w].onFailure = @ + 1]
    /\ events' = Tail(events)
    /\ UNCHANGED << variant, unitVars, localVars, prompt_text, last_send, selector_events, ui_thread >>

(* ---- ModelHandler and the selector refresh on their own -------------- *)
\* selectors a refresh can find
Selectors ==
    { EmptySelector,
      [items |-> <<"gemma3:4b", "llama3:8b">>, index |-> 1],
      [items |-> <<"mistral">>, index |-> 0] }

\* ModelHandler(model_name=mh.model_arg) is constructed
Unit_ModelHandler_init(out) ==
    /\ variant = "unit"
    /\ mh.pc = "new"
    /\ mh' = ModelHandler_init(mh.model_arg, out)
    /\ mh_call' = Call("__init__", out, EmptySelector, <<>>, NoOutcome, <<>>, NoPayload,
                       NoReturn, NoPopulate)
    /\ UNCHANGED << variant, localVars, hostedVars, status_label, workers, events,
                    selector_events, ui_thread, last_send >>

\* mh.get_response(prompt) is called and the POST meets outcome out
Unit_get_response(prompt, out) ==
    /\ variant = "unit"
    /\ mh.pc = "ready"
    /\ mh_call' = Call("get_response", NoTags, EmptySelector, prompt, out, mh.api_endpoint,
                       Payload(mh.model_name, prompt), get_response(out), NoPopulate)
    /\ UNCHANGED << variant, mh, localVars, hostedVars, status_label, workers, events,
                    selector_events, ui_thread, last_send >>

\* populate_model_selector runs on selector sel of a window whose handler is
\* mh and the GET meets outcome out; what it gives is kept in the call
Unit_populate_model_selector(sel, out) ==
    /\ variant = "unit"
    /\ mh.pc = "ready"
    /\ mh_call' = Call("populate_model_selector", out, sel, <<>>, NoOutcome, <<>>, NoPayload,
                       NoReturn, PopulateResult(sel, mh.model_name, out))
    /\ UNCHANGED << variant, mh, localVars, hostedVars, status_label, workers, events,
                    selector_events, ui_thread, last_send >>

(* ---- specification --------------------------------------------------- *)
\* the numbers workers can have: every hosted dispatch adds a turn
MaxWorkers == IF MaxRequests > MaxTurns THEN MaxRequests ELSE MaxTurns
WorkerSlots == 1..MaxWorkers

LocalNext ==
    \/ \E txt \in TypedTexts : ChatbotGUI_type(txt)
    \/ \E i \in 0..2 : ChatbotGUI_select(i)
    \/ ChatbotGUI_populate_model_selector_get
    \/ \E out \in RefreshTagsOutcomes : ChatbotGUI_populate_model_selector(out)
    \/ ChatbotGUI_send_message
    \/ \E w \in WorkerSlots : ModelWorker_set_model(w)
    \/ \E w \in WorkerSlots : ModelWorker_post(w)
    \/ \E w \in WorkerSlots, out \in WorkerGenOutcomes : ModelWorker_reply(w, out)
    \/ \E w \in WorkerSlots : ModelWorker_emit(w)
    \/ ChatbotGUI_handle_response
    \/ ChatbotGUI_handle_error

HostedNext ==
    \/ \E txt \in TypedTexts : ChatBotWindow_type(txt)
    \/ ChatBotWindow_send_message
    \/ \E w \in WorkerSlots : AnthropicWorker_copy(w)
    \/ \E w \in WorkerSlots, out \in HostedOutcomes : AnthropicWorker_reply(w, out)
    \/ \E w \in WorkerSlots : AnthropicWorker_emit(w)
    \/ ChatBotWindow_process_response
    \/ ChatBotWindow_show_error

Next == LocalNext \/ HostedNext

\* one program alone
LocalInit == Init /\ variant = "local"
HostedInit == Init /\ variant = "hosted"
LocalSpec == LocalInit /\ [][LocalNext]_vars
HostedSpec == HostedInit /\ [][HostedNext]_vars

Spec == Init /\ [][Next]_vars

\* the model handler and the selector refresh called on their own, on every
\* outcome of the backend
UnitInit ==
    /\ variant = "unit"
    /\ prompt_window = <<>> /\ response_window = <<>> /\ send_button = TRUE
    /\ model_selector = EmptySelector /\ model_name = DefaultModel
    /\ current_worker = 0
    /\ prompt_text = <<>> /\ message_history = <<>> /\ chat_layout = <<>>
    /\ status_label = <<>> /\ workers = <<>> /\ events = <<>>
    /\ selector_events = 0 /\ ui_thread = "idle"
    /\ last_send = [nonempty |-> FALSE, busy |-> 0]
    /\ mh \in { NewHandler(n) : n \in ConfiguredModels }
    /\ mh_call = NoCall
UnitNext ==
    \/ \E out \in CheckTagsOutcomes : Unit_ModelHandler_init(out)
    \/ \E prompt \in { Strip(txt) : txt \in TypedTexts }, out \in GenOutcomes :
          Unit_get_response(prompt, out)
    \/ \E sel \in Selectors, out \in CheckTagsOutcomes :
          Unit_populate_model_selector(sel, out)
UnitSpec == UnitInit /\ [][UnitNext]_vars

\* a worker thread that can run does run, the UI event loop handles the
\* events queued to it, and a GET of the model list the UI thread waits in
\* comes back; nothing makes the backend answer a worker or the user act
FairSpec ==
    /\ Spec
    /\ \A w \in WorkerSlots : WF_vars(ModelWorker_set_model(w))
    /\ \A w \in WorkerSlots : WF_vars(ModelWorker_post(w))
    /\ \A w \in WorkerSlots : WF_vars(ModelWorker_emit(w))
    /\ \A w \in WorkerSlots : WF_vars(AnthropicWorker_copy(w))
    /\ \A w \in WorkerSlots : WF_vars(AnthropicWorker_emit(w))
    /\ WF_vars(ChatbotGUI_handle_response)
    /\ WF_vars(ChatbotGUI_handle_error)
    /\ WF_vars(\E out \in RefreshTagsOutcomes : ChatbotGUI_populate_model_selector(out))
    /\ WF_vars(ChatBotWindow_process_response)
    /\ WF_vars(ChatBotWindow_show_error)

LocalFairSpec ==
    /\ LocalSpec
    /\ \A w \in WorkerSlots : WF_vars(ModelWorker_set_model(w))
    /\ \A w \in WorkerSlots : WF_vars(ModelWorker_post(w))
    /\ \A w \in WorkerSlots : WF_vars(ModelWorker_emit(w))
    /\ WF_vars(ChatbotGUI_handle_response)
    /\ WF_vars(ChatbotGUI_handle_error)
    /\ WF_vars(\E out \in RefreshTagsOutcomes : ChatbotGUI_populate_model_selector(out))

(* ---- properties ------------------------------------------------------ *)
IsLocal == variant = "local"
IsHosted == variant = "hosted"
\* the backend call of worker w has returned or raised
Returned_(w) == w \in WorkerIds /\ workers[w].pc \in {"emit", "done"}
\* worker w got a successful answer carrying a text
Succeeded(w) ==
    /\ Returned_(w)
    /\ workers[w].outcome.t = "http" /\ workers[w].outcome.status = 200
    /\ workers[w].outcome.body.has /\ workers[w].outcome.body.response.t = "str"
\* the completion of worker w has been handled by the UI thread
Handled(w) == w \in WorkerIds /\ ~InFlight(w)
\* the local window is idle
LocalIdle == current_worker = 0 /\ send_button /\ status_label = <<>>

\* C1: local single flight.  A call of send_message made while current_worker
\* is set changes nothing of the window (no worker, no transcript line, prompt
\* box, status and button as before), current_worker is set exactly while a
\* worker is outstanding, and at most one worker is outstanding.
C1_LocalSingleFlight ==
    /\ [](IsLocal => /\ NumInFlight <= 1
                     /\ (current_worker # 0 <=> NumInFlight = 1))
    /\ [][ (IsLocal /\ last_send' # last_send /\ current_worker # 0)
           => UNCHANGED << workers, response_window, prompt_window, status_label,
                           send_button, current_worker, events >> ]_vars

\* a call of send_message with a non-empty prompt was made while a worker was
\* outstanding, and that worker still is
C1_Witness ==
    /\ IsLocal /\ current_worker # 0
    /\ last_send.busy = 1 /\ last_send.nonempty
    /\ Strip(prompt_window) # <<>>

\* C2: every worker emits exactly one completion signal.  It has emitted
\* none before its run reaches the emit, never more than one in all, never
\* both kinds, exactly one once its run has ended, and a worker whose backend
\* call has returned or raised does get to emit it.
C2_ExactlyOneSignal ==
    /\ [](\A w \in WorkerIds :
            /\ workers[w].fin + workers[w].err <= 1
            /\ (workers[w].pc = "done" <=> workers[w].fin + workers[w].err = 1))
    /\ []<>(\A w \in WorkerIds : workers[w].pc # "emit")

\* both programs have had a worker emit: a hosted worker whose call raised, a
\* local worker whose call returned
C2_Witness ==
    \E w \in WorkerIds :
        /\ workers[w].pc = "done"
        /\ \/ IsHosted /\ workers[w].ret.raised /\ workers[w].err = 1
           \/ IsLocal /\ workers[w].ret.val.t = "none" /\ workers[w].err = 1

\* the transcript line handle_response writes for an answer
ModelEntry(model, response) == <<model, ": ">> \o response \o <<"\n">>
\* the text worker w received from the backend
AnswerOf(w) == workers[w].outcome.body.response.v

\* C3: a dispatched request whose backend call succeeds is handled by the
\* success handler, once and never by the failure handler; the step that
\* handles it appends exactly one assistant turn holding the answer (hosted:
\* to message_history and the chat area, clearing the status; local: one
\* "<model>: <answer>" line, no error line), and that step does come.
C3_SuccessAppendsOneTurn ==
    /\ [](\A w \in WorkerIds :
            Succeeded(w) => /\ workers[w].onSuccess <= 1 /\ workers[w].onFailure = 0
                            /\ Handled(w) => workers[w].onSuccess = 1)
    /\ [][ \A w \in WorkerIds :
             (Succeeded(w) /\ InFlight(w) /\ ~InFlight(w)')
             => /\ workers'[w].onSuccess = 1
                /\ IsHosted =>
                     /\ message_history' =
                            Append(message_history, Turn("assistant", AnswerOf(w)))
                     /\ Len(chat_layout') = Len(chat_layout) + 1
                     /\ status_label' = <<>>
                /\ IsLocal =>
                     response_window' =
                        Append(response_window,
                               ModelEntry(currentText(model_selector), AnswerOf(w))) ]_vars
    /\ []<>(\A w \in WorkerIds : Succeeded(w) => Handled(w))

\* a successful hosted request has been handled and its answer is the last turn
C3_Witness ==
    /\ IsHosted
    /\ \E w \in WorkerIds : Succeeded(w) /\ workers[w].onSuccess = 1
    /\ message_history # <<>>
    /\ message_history[Len(message_history)].role = "assistant"

\* worker w got an answer with a status outside 200..299
StatusFailed(w) ==
    /\ Returned_(w)
    /\ workers[w].outcome.t = "http"
    /\ workers[w].outcome.status \notin 200..299
\* the call of worker w failed without an answer
TransportFailed(w) == Returned_(w) /\ workers[w].outcome.t = "conn_error"
Contains(text, token) == \E i \in 1..Len(text) : text[i] = token

\* C4: a request answered with a non-2xx status reaches the failure handler
\* with a text that contains the status code, never the success handler: the
\* signal it queues is the error signal carrying the code, and once it is
\* handled the failure handler has run once and the success handler not.
C4_StatusErrorFails ==
    /\ \A i \in 1..Len(events) :
          StatusFailed(events[i].w)
          => /\ events[i].sig = "error"
             /\ Contains(events[i].arg, ToString(workers[events[i].w].outcome.status))
    /\ \A w \in WorkerIds :
          StatusFailed(w) /\ Handled(w)
          => workers[w].onFailure = 1 /\ workers[w].onSuccess = 0

\* C5: a local request whose call fails in transport reaches handle_error and
\* never handle_response: no finished signal is emitted for it.
C5_TransportErrorFails ==
    \A w \in WorkerIds :
        IsLocal /\ TransportFailed(w)
        => /\ workers[w].fin = 0 /\ workers[w].onSuccess = 0
           /\ Handled(w) => workers[w].onFailure = 1

\* C6: the message list a hosted worker sends is the turns accumulated before
\* the pending user turn followed by one user turn holding the prompt.
C6_RequestIsHistoryPlusPrompt ==
    \A w \in WorkerIds :
        IsHosted /\ workers[w].sent # NoRequest
        => workers[w].sent.messages =
              Append(workers[w].pre, Turn("user", workers[w].prompt))

\* C7: the history a hosted worker replays is the conversation as it was at
\* dispatch: it holds no turn appended to message_history after the worker
\* was constructed.
C7_SnapshotIsolation ==
    \A w \in WorkerIds :
        IsHosted /\ workers[w].sent # NoRequest
        => LET replayed == SubSeq(workers[w].sent.messages, 1,
                                  Len(workers[w].sent.messages) - 1)
           IN  /\ Len(replayed) <= Len(workers[w].atDispatch)
               /\ replayed = SubSeq(workers[w].atDispatch, 1, Len(replayed))

\* C8: the turns of message_history alternate user, assistant, user, ...
C8_TurnsAlternate ==
    IsHosted =>
        \A i \in 1..Len(message_history) :
            message_history[i].role = IF i % 2 = 1 THEN "user" ELSE "assistant"

\* C9: hosted dispatch guard.  A call of send_message made while a worker is
\* outstanding starts no worker and appends no turn, and at most one
\* AnthropicWorker is in flight.
C9_HostedSingleFlight ==
    /\ [](IsHosted => NumInFlight <= 1)
    /\ [][ (IsHosted /\ last_send' # last_send /\ NumInFlight >= 1)
           => UNCHANGED << workers, message_history >> ]_vars

WorkerStep == \E w \in WorkerIds : workers'[w].pc # workers[w].pc
\* a completion handler runs for some worker
HandlerStep ==
    \E w \in WorkerIds :
        \/ workers'[w].onSuccess # workers[w].onSuccess
        \/ workers'[w].onFailure # workers[w].onFailure

\* C11: thread ownership.  A completion handler runs only as an event of the
\* UI thread: the step that runs it takes the signal from the head of the
\* UI thread's event queue and is no step of a worker's run.  No step of a
\* worker's run writes the conversation state (message_history and the chat
\* area; the transcript and current_worker) or the status and the button: a
\* worker reads its inputs and queues a signal.
C11_HandlersOnUIThread ==
    /\ [][ HandlerStep
             => /\ ~WorkerStep
                /\ events # <<>> /\ events' = Tail(events)
                /\ workers'[Head(events).w].onSuccess + workers'[Head(events).w].onFailure
                     = workers[Head(events).w].onSuccess + workers[Head(events).w].onFailure + 1 ]_vars
    /\ [][ WorkerStep
             => UNCHANGED << message_history, chat_layout, response_window,
                             current_worker, status_label, send_button >> ]_vars

\* a worker has emitted its signal and the handler has not run yet: the
\* signal waits in the queue of the UI thread, in either program
C11_Witness ==
    \E w \in WorkerIds :
        /\ workers[w].pc = "done" /\ workers[w].fin + workers[w].err = 1
        /\ InFlight(w)
        /\ \E i \in 1..Len(events) : events[i].w = w
        /\ IsLocal => current_worker = w /\ status_label = Thinking

\* C12: a worker mutates no state it shares with the UI thread.  No step of
\* a worker's run changes a field of the window or of the model handler
\* (model_handler.model_name, which populate_model_selector writes too), and
\* in no state is a worker about to write model_name.
C12_WorkerWritesNothingShared ==
    /\ [][ WorkerStep => UNCHANGED << localVars, hostedVars, status_label >> ]_vars
    /\ [](\A w \in WorkerIds :
            (IsLocal /\ workers[w].pc = "start") => workers[w].model_name = model_name)

\* C13: the UI thread never blocks on network I/O.  It is never inside an
\* HTTP call, and a completion signal queued to it can always be handled,
\* whatever the backend does.
C13_UINeverBlocks ==
    /\ ui_thread = "idle"
    /\ (IsLocal /\ events # <<>>)
          => ENABLED (ChatbotGUI_handle_response \/ ChatbotGUI_handle_error)

\* the latest call was get_response and its POST was answered with status 200
Parsed200 ==
    /\ mh_call.fn = "get_response"
    /\ mh_call.gen.t = "http" /\ mh_call.gen.status = 200

\* C14: parsing of a status-200 body by get_response.  One JSON object with
\* a "response" member gives that member's value; one without it gives 'No
\* response generated'; several objects joined by newlines give the
\* "response" of the first object, not of a later one; a body that is no
\* JSON gives 'Error parsing model response. Please try again.'.
C14_ParsesStatus200Body ==
    Parsed200 =>
        LET body == mh_call.gen.body
            value == mh_call.ret.val IN
        /\ ~mh_call.ret.raised
        /\ (body.kind = "object" /\ body.has) => value = body.response
        /\ (body.kind = "object" /\ ~body.has) => value = Str(<<"No response generated">>)
        /\ (body.kind = "concat" /\ body.has) => value = body.response
        /\ body.kind = "invalid"
              => value = Str(<<"Error parsing model response. Please try again.">>)

\* get_response was called on a body of two objects whose responses differ
\* and returned the first one's
C14_Witness ==
    /\ Parsed200
    /\ mh_call.gen.body.kind = "concat" /\ mh_call.gen.body.has
    /\ mh_call.gen.body.last # mh_call.gen.body.response
    /\ mh_call.ret.val = Str(<<"a">>)

\* C15: get_response raises nothing and returns a string on every outcome
\* of the POST, so what a worker hands to finished.emit is a string.
C15_AlwaysReturnsText ==
    /\ mh_call.fn = "get_response"
          => ~mh_call.ret.raised /\ mh_call.ret.val.t = "str"
    /\ \A w \in WorkerIds :
          (IsLocal /\ Returned_(w))
          => ~workers[w].ret.raised /\ workers[w].ret.val.t = "str"

\* mh has printed the line
Printed(line) == \E i \in 1..Len(mh.printed) : mh.printed[i] = line
\* a handler configured with 'gemma3:4b' was constructed against a backend
\* whose available set is ['gemma3:2b']
Gemma4bAgainst2b ==
    /\ mh.pc # "new" /\ mh.model_arg = "gemma3:4b"
    /\ mh.assigned
    /\ mh.available_models = << [none |-> FALSE, s |-> "gemma3:2b"] >>

\* C16 as stated: that construction succeeds and prints the 'not found'
\* warning, not the 'related models exist' message.
C16_NotFoundWarning ==
    Gemma4bAgainst2b
    => /\ mh.pc = "ready"
       /\ Printed(<<"Warning: Model '", "gemma3:4b", "' not found in Ollama.">>)
       /\ ~Printed(<<"Model '", "gemma3:4b",
                     "' not found exactly, but related models exist: ", "gemma3:2b">>)

\* C16, amended: that construction succeeds and prints the 'related models
\* exist' message naming gemma3:2b, which shares the base name gemma3, and
\* not the 'not found' warning.
C16_RelatedModelsMessage ==
    Gemma4bAgainst2b
    => /\ mh.pc = "ready"
       /\ Printed(<<"Model '", "gemma3:4b",
                    "' not found exactly, but related models exist: ", "gemma3:2b">>)
       /\ ~Printed(<<"Warning: Model '", "gemma3:4b", "' not found in Ollama.">>)
       /\ Printed(<<"Using model: ", "gemma3:4b">>)

\* the handler of the claim's case has been constructed
C16_Witness == Gemma4bAgainst2b /\ mh_call.fn = "__init__"

\* C17: the availability check is advisory.  Whatever the tags request
\* meets, __init__ returns (it never raises), model_name is the configured
\* name, and a get_response call made afterwards posts to the generate
\* endpoint with that model and the prompt.
C17_CheckIsAdvisory ==
    /\ mh.pc # "raised"
    /\ mh_call.fn = "__init__" => mh.pc = "ready"
    /\ mh.pc = "ready"
          => /\ mh.model_name = mh.model_arg
             /\ mh.api_endpoint = <<"http://localhost:11434", "/api/generate">>
    /\ mh_call.fn = "get_response"
          => /\ mh_call.url = <<"http://localhost:11434", "/api/generate">>
             /\ mh_call.payload.model = mh.model_arg
             /\ mh_call.payload.prompt = mh_call.prompt
             /\ mh_call.gen # NoOutcome

\* get_response was called on a handler whose check had failed (backend
\* unreachable, error status or malformed body)
C17_Witness ==
    /\ mh_call.fn = "get_response"
    /\ ~mh.assigned
    /\ \E i \in 1..Len(mh.printed) : mh.printed[i][1] = "Error connecting to Ollama API: "
    /\ mh_call.payload.model = mh.model_arg

\* the backend answered the tags request with a list of named models
ListedNames(out) ==
    out.t = "http" /\ out.status = 200 /\ out.valid
    /\ \A i \in 1..Len(out.models) : out.models[i].hasName
\* the names n1, ..., nk of that list
NamesOf(models) == [i \in 1..Len(models) |-> models[i].name]

\* C18: model listing keeps the backend's order and content.  After a
\* refresh answered with models named n1, ..., nk the selector's items are
\* exactly n1, ..., nk in that order, whatever it held before, and no error
\* line is written; after a check answered so, available_models is that
\* list too.
C18_ListingKeepsOrderAndContent ==
    /\ (mh_call.fn = "populate_model_selector" /\ ListedNames(mh_call.tags))
          => /\ mh_call.result.sel.items = NamesOf(mh_call.tags.models)
             /\ mh_call.result.lines = <<>>
    /\ (mh_call.fn = "__init__" /\ ListedNames(mh_call.tags))
          => /\ mh.assigned
             /\ Len(mh.available_models) = Len(mh_call.tags.models)
             /\ \A i \in 1..Len(mh.available_models) :
                   /\ ~mh.available_models[i].none
                   /\ mh.available_models[i].s = mh_call.tags.models[i].name

\* a selector that held other items was refreshed with a list of three
\* names, one of them twice
C18_Witness ==
    /\ mh_call.fn = "populate_model_selector" /\ ListedNames(mh_call.tags)
    /\ mh_call.sel.items = <<"mistral">>
    /\ mh_call.result.sel.items = <<"llama3:8b", "llama3:8b", "gemma3:4b">>

\* transcript entries: a submitted prompt; the completion of a request (the
\* answer line of handle_response, or the first line of handle_error)
IsPromptEntry(line) == line[1] = "\nYou: "
IsCompletionEntry(line) ==
    \/ line[1] = "Error: "
    \/ Len(line) >= 2 /\ line[2] = ": " /\ ~IsPromptEntry(line)
IsRequestEntry(line) == IsPromptEntry(line) \/ IsCompletionEntry(line)
\* the prompt and completion entries of the transcript, in its order
RequestEntries == SelectSeq(response_window, IsRequestEntry)
\* the completion entry of worker w, written at the time it was handled
CompletionOf(w, line) ==
    IF workers[w].onSuccess = 1
    THEN /\ Len(line) >= 2 /\ line[2] = ": "
         /\ SubSeq(line, 3, Len(line)) = workers[w].ret.val.v \o <<"\n">>
    ELSE /\ line[1] = "Error: "
         /\ workers[w].onFailure = 1

\* C19: the local transcript keeps submission order.  Its prompt and
\* completion entries are: prompt of request 1, completion of request 1,
\* prompt of request 2, ...; the completion of the last request is missing
\* exactly while that request is in flight.  So no completion is shown after
\* a later prompt.
C19_TranscriptInSubmissionOrder ==
    IsLocal =>
        LET marks == RequestEntries IN
        /\ Len(marks) = 2 * Len(workers) - NumInFlight
        /\ \A w \in WorkerIds :
              /\ marks[2 * w - 1] = YouEntry(workers[w].prompt)
              /\ InFlight(w) => w = Len(workers)
              /\ ~InFlight(w) => CompletionOf(w, marks[2 * w])

\* two requests were submitted and completed, the first one by an error
C19_Witness ==
    /\ IsLocal /\ Len(workers) = 2 /\ NumInFlight = 0
    /\ workers[1].onFailure = 1 /\ workers[2].onSuccess = 1
    /\ Len(RequestEntries) = 4

\* C20: the generate request carries the model selected at dispatch.  The
\* model of the payload a worker posts is the selector text send_message
\* read when it created the worker, whatever refreshes and picks happen
\* while the request is in flight.
C20_PayloadModelIsDispatchSelection ==
    \A w \in WorkerIds :
        (IsLocal /\ workers[w].payload # NoPayload)
        => workers[w].payload.model = workers[w].model_name

ParseErrorText == <<"Error parsing model response. Please try again.">>
NoResponseText == <<"No response generated">>

\* C21: closed result set of local parsing.  For a status-200 body
\* get_response returns the response value of the single object, the text
\* 'No response generated', the response value of the first fragment or ''
\* from recovery, or the parse-error text; a body that is no single JSON
\* object gives one of the last three and never any other text.
C21_ClosedResultSet ==
    Parsed200 =>
        LET body == mh_call.gen.body
            val == mh_call.ret.val IN
        /\ ~mh_call.ret.raised
        /\ \/ body.kind = "object" /\ body.has /\ val = body.response
           \/ body.kind = "object" /\ ~body.has /\ val = Str(NoResponseText)
           \/ body.kind # "object" /\ body.has /\ val = body.response
           \/ body.kind # "object" /\ ~body.has /\ val = Str(<<>>)
           \/ body.kind # "object" /\ val = Str(ParseErrorText)

\* worker w has posted its payload
Posted(w) == w \in WorkerIds /\ workers[w].payload # NoPayload

\* C22: the local variant never forwards conversation history.  The payload
\* of every generate request holds the model name, the prompt as submitted,
\* stream false and the fixed options and nothing of the transcript, so two
\* requests with the same prompt and the same model carry the same payload
\* whatever the transcript was when each was submitted.
C22_PayloadHoldsNoHistory ==
    IsLocal =>
        /\ \A w \in WorkerIds :
              Posted(w) =>
                  workers[w].payload =
                      [ model |-> workers[w].payload.model, prompt |-> workers[w].prompt,
                        stream |-> FALSE, num_predict |-> 1024 ]
        /\ \A w1, w2 \in WorkerIds :
              ( /\ Posted(w1) /\ Posted(w2)
                /\ workers[w1].prompt = workers[w2].prompt
                /\ workers[w1].payload.model = workers[w2].payload.model )
              => workers[w1].payload = workers[w2].payload

\* two requests with the same prompt and model were posted, the second from
\* a window whose transcript already held the first exchange
C22_Witness ==
    /\ IsLocal /\ Len(workers) = 2
    /\ Posted(1) /\ Posted(2)
    /\ workers[1].prompt = workers[2].prompt
    /\ workers[1].payload.model = workers[2].payload.model
    /\ Handled(1)
    /\ Len(response_window) > Len(Welcome) + 2

\* the latest call was a refresh of the model list that ended on an error
\* path: it appended an error line to the transcript
RefreshFailed ==
    /\ mh_call.fn = "populate_model_selector"
    /\ mh_call.result.lines # <<>>

\* C23: a model-list refresh that fails leaves the model selection untouched.
\* When populate_model_selector ends on an error path, the items of the
\* selector, its current index and model_handler.model_name are what they
\* were before the refresh.
C23_FailedRefreshKeepsSelection ==
    RefreshFailed =>
        /\ mh_call.result.sel = mh_call.sel
        /\ mh_call.result.model_name = mh.model_name

\* worker w is about to build its payload in get_response
BuildsPayload(w) == w \in WorkerIds /\ workers[w].pc = "call"
\* the names of the model list fetched last: the items of the selector
ItemsOf(sel) == { sel.items[i] : i \in 1..Len(sel.items) }

\* C24: every generate request names a real model.  Whenever a local worker
\* is about to build its payload, model_handler.model_name is non-empty and
\* is the configured default or a name of the model list fetched last.
C24_RequestNamesRealModel ==
    \A w \in WorkerIds :
        (IsLocal /\ BuildsPayload(w)) =>
            /\ model_name # ""
            /\ model_name = DefaultModel \/ model_name \in ItemsOf(model_selector)

\* C25: response attribution in the local variant.  The model name that
\* prefixes the response entry of a request in the transcript is the model
\* the request was dispatched with, whatever picks and refreshes happened
\* between its dispatch and its completion.
C25_ResponseNamesDispatchedModel ==
    IsLocal =>
        \A w \in WorkerIds :
            workers[w].onSuccess = 1 =>
                RequestEntries[2 * w][1] = workers[w].model_name

\* C26: the hosted status tracks the in-flight state.  While at least one
\* AnthropicWorker has been started and its completion is not yet handled,
\* the status label reads 'Thinking...'; it is cleared or replaced by an
\* error only when no request remains outstanding.
C26_StatusTracksInFlight ==
    (IsHosted /\ NumInFlight >= 1) => status_label = Thinking

====
